---- MODULE Spec2Model ----
(***************************************************************************)
(* HSLPicker: a canvas colour picker (hue ring around a saturation /       *)
(* brightness square) and the ColorConvert helpers it uses.                *)
(*                                                                         *)
(* Numbers.  The program computes in IEEE doubles; the model computes in   *)
(* exact integer arithmetic:                                               *)
(*   - pointer coordinates, ox, oy and the square's geometry are in        *)
(*     thousandths of a pixel ("milli-pixels");                            *)
(*   - angles are whole degrees, so an angle of k degrees stands for the   *)
(*     radian value k * PI / 180;                                          *)
(*   - fractions s, l, b in [0,1] are passed as numerator / denominator.   *)
(* Math.round(n / d) is floor(n/d + 1/2), computed exactly.  A double that *)
(* lies exactly on a rounding tie may round either way in the program; the *)
(* model rounds the exact value.                                           *)
(***************************************************************************)
EXTENDS Integers, Sequences, FiniteSets, TLC

VARIABLES
    pickers,    \* the HSLPicker instances, in construction order
    evt,        \* the input event or API call handled last
    calls,      \* the onColorChange invocations made while handling evt
    conv        \* the ColorConvert pipeline under test (SpecConv only)

vars == <<pickers, evt, calls, conv>>

-----------------------------------------------------------------------------
(* Arithmetic                                                              *)

Abs(x) == IF x < 0 THEN -x ELSE x

Min(a, b) == IF a < b THEN a ELSE b

Max(a, b) == IF a > b THEN a ELSE b

\* Math.round(n / d) for d > 0: the nearest integer, ties towards +infinity.
Round(n, d) == (2 * n + d) \div (2 * d)

\* Math.round of a value given in milli-pixels; the result is in pixels.
RoundM(v) == (v + 500) \div 1000

\* Math.sin of whole degrees 0..90, times 10000.
SinTab ==
    << 0, 175, 349, 523, 698, 872, 1045, 1219, 1392, 1564, 1736, 1908, 2079,
       2250, 2419, 2588, 2756, 2924, 3090, 3256, 3420, 3584, 3746, 3907, 4067,
       4226, 4384, 4540, 4695, 4848, 5000, 5150, 5299, 5446, 5592, 5736, 5878,
       6018, 6157, 6293, 6428, 6561, 6691, 6820, 6947, 7071, 7193, 7314, 7431,
       7547, 7660, 7771, 7880, 7986, 8090, 8192, 8290, 8387, 8480, 8572, 8660,
       8746, 8829, 8910, 8988, 9063, 9135, 9205, 9272, 9336, 9397, 9455, 9511,
       9563, 9613, 9659, 9703, 9744, 9781, 9816, 9848, 9877, 9903, 9925, 9945,
       9962, 9976, 9986, 9994, 9998, 10000 >>

\* Math.sin(k degrees) * 10000, any integer k.
Sin(k) ==
    LET a == k % 360
    IN  IF a <= 90 THEN SinTab[a + 1]
        ELSE IF a <= 180 THEN SinTab[180 - a + 1]
        ELSE IF a <= 270 THEN -SinTab[a - 180 + 1]
        ELSE -SinTab[360 - a + 1]

\* Math.cos(k degrees) * 10000.
Cos(k) == Sin(k + 90)

\* Math.atan2(dy, dx) in whole degrees, in -179..180: the direction of the
\* quadrant of (dx, dy) whose unit vector is nearest to (dx, dy);
\* atan2(0, 0) = 0.
Atan2(dy, dx) ==
    IF dx = 0 /\ dy = 0 THEN 0
    ELSE LET dot(k) == dx * Cos(k) + dy * Sin(k)
             quadrant == IF dy >= 0
                         THEN (IF dx > 0 THEN 0..90 ELSE 90..180)
                         ELSE (IF dx >= 0 THEN -90..0 ELSE -179..-90 \cup {180})
         IN  CHOOSE k \in quadrant :
                 /\ dot(k) >= dot(k - 1)
                 /\ dot(k) >= dot(k + 1)

-----------------------------------------------------------------------------
(* ColorConvert                                                            *)

\* RGBtoHSL(R, G, B): h in degrees, s and l in percent, each Math.round-ed.
\* r, g, b = R/255, G/255, B/255 are kept as the numerators R, G, B.
RGBtoHSL(R, G, B) ==
    LET cMax == Max(R, Max(G, B))
        cMin == Min(R, Min(G, B))
        dC   == cMax - cMin
        l    == Round(100 * (cMax + cMin), 510)
    IN  IF cMax = cMin THEN [h |-> 0, s |-> 0, l |-> l]
        ELSE LET s == IF cMax + cMin < 255
                      THEN Round(100 * dC, cMax + cMin)
                      ELSE Round(100 * dC, 510 - cMax - cMin)
                 h == IF cMax = R THEN Round(60 * (G - B), dC)
                      ELSE IF cMax = G THEN Round(120 * dC + 60 * (B - R), dC)
                      ELSE Round(240 * dC + 60 * (R - G), dC)
             IN  [h |-> h, s |-> s, l |-> l]

\* A HSLToHSB that passes saturation and lightness through as saturation and
\* brightness.
HSLToHSBUnscaled(h60, sN, sD, lN, lD) ==
    [h |-> h60, s |-> Round(100 * sN, sD), b |-> Round(100 * lN, lD)]

\* HSLToHSB(H, S, L) with H = h60 / 60, S = sN / sD, L = lN / lD.
\* b = bNum / bDen where bNum = 2 lN sD + sN (lD - |2 lN - lD|), bDen = 2 sD lD.
HSLToHSB(h60, sN, sD, lN, lD) ==
    LET bNum == 2 * lN * sD + sN * (lD - Abs(2 * lN - lD))
        bDen == 2 * sD * lD
    IN  IF bNum = 0 THEN [h |-> 0, s |-> 0, b |-> 0]
        ELSE [h |-> h60,
              s |-> Round(200 * (bNum - 2 * sD * lN), bNum),
              b |-> Round(100 * bNum, bDen)]

\* HSBToHSL(H, S, B) with H = h60 / 60, S = sN / sD, B = bN / bD.
\* l = lNum / lDen, s = sNum / sDen; s is NaN exactly when sNum = sDen = 0
\* (sDen = 0 forces B = 0 or S = 0, so s is never infinite).
HSBToHSL(h60, sN, sD, bN, bD) ==
    LET lNum  == bN * (2 * sD - sN)
        lDen  == 2 * bD * sD
        sNum  == 2 * bN * sN
        sDen  == lDen - Abs(2 * lNum - lDen)
        isNaN == sDen = 0
    IN  IF (sN = 0 \/ isNaN) /\ bN = bD THEN [h |-> h60, s |-> 0, l |-> 100]
        ELSE IF (sN = 0 \/ isNaN) /\ bN = 0 THEN [h |-> h60, s |-> 0, l |-> 0]
        ELSE [h |-> h60,
              s |-> Round(100 * sNum, sDen),
              l |-> Round(100 * lNum, lDen)]

\* The colour the canvas gives the string 'hsl(h, s%, l%)': the CSS conversion,
\* each channel rounded to 0..255.
CssHslToRgb(h, s, l) ==
    LET hh == h % 360
        ss == Max(0, Min(100, s))
        ll == Max(0, Min(100, l))
        a  == ss * Min(ll, 100 - ll)
        f(n) == LET k30 == (30 * n + hh) % 360
                    m   == Max(-30, Min(Min(k30 - 90, 270 - k30), 30))
                IN  Round(255 * (3000 * ll - a * m), 300000)
    IN  [r |-> f(0), g |-> f(8), b |-> f(4)]

\* HexToRGB's digit tables: parseInt(_, 16) accepts both cases.
HexLower == << "0", "1", "2", "3", "4", "5", "6", "7",
               "8", "9", "a", "b", "c", "d", "e", "f" >>

HexUpper == << "0", "1", "2", "3", "4", "5", "6", "7",
               "8", "9", "A", "B", "C", "D", "E", "F" >>

\* A number the program holds where it may be NaN or infinite: [k |-> "NaN"],
\* [k |-> "Infinity"], or the finite number v.
NaN == [k |-> "NaN"]

Finite(v) == [k |-> "finite", v |-> v]

IsHexDigit(c) == \E i \in 1..16 : HexLower[i] = c \/ HexUpper[i] = c

HexVal(c) == (CHOOSE i \in 1..16 : HexLower[i] = c \/ HexUpper[i] = c) - 1

\* s without its leading white space.
RECURSIVE TrimStart(_)
TrimStart(s) ==
    IF Len(s) > 0 /\ s[1] = " " THEN TrimStart(Tail(s)) ELSE s

\* The number of hex digits s starts with.
RECURSIVE DigitCount(_)
DigitCount(s) ==
    IF Len(s) > 0 /\ IsHexDigit(s[1]) THEN 1 + DigitCount(Tail(s)) ELSE 0

\* The value of the first n characters of s, all hex digits.
RECURSIVE DigitsValue(_, _)
DigitsValue(s, n) ==
    IF n = 0 THEN 0 ELSE 16 * DigitsValue(s, n - 1) + HexVal(s[n])

\* parseInt(s, 16): leading white space is skipped, then a sign and a "0x" or
\* "0X" are read if present; the result is the value of the hex digits that
\* follow, up to the first other character, and NaN when there are none.
ParseInt16(s) ==
    LET t      == TrimStart(s)
        signed == Len(t) > 0 /\ t[1] \in {"+", "-"}
        u      == IF signed THEN Tail(t) ELSE t
        v      == IF Len(u) >= 2 /\ u[1] = "0" /\ u[2] \in {"x", "X"}
                  THEN SubSeq(u, 3, Len(u)) ELSE u
        n      == DigitCount(v)
    IN  IF n = 0 THEN NaN
        ELSE Finite((IF signed /\ t[1] = "-" THEN -1 ELSE 1) * DigitsValue(v, n))

\* hex.replace('#', ''): the first '#' is removed.
StripHash(s) ==
    IF \E i \in 1..Len(s) : s[i] = "#"
    THEN LET i == CHOOSE k \in 1..Len(s) :
                      s[k] = "#" /\ \A m \in 1..(k - 1) : s[m] # "#"
         IN  SubSeq(s, 1, i - 1) \o SubSeq(s, i + 1, Len(s))
    ELSE s

\* hex.substring(a, b) for 0 <= a <= b.
Substring(s, a, b) == SubSeq(s, Min(a, Len(s)) + 1, Min(b, Len(s)))

\* HexToRGB(hex); hex is a sequence of one-character strings.
HexToRGB(hex) ==
    LET h == StripHash(hex)
    IN  [r |-> ParseInt16(Substring(h, 0, 2)),
         g |-> ParseInt16(Substring(h, 2, 4)),
         b |-> ParseInt16(Substring(h, 4, 6))]

\* val.toString(16) for val in 0..255.
ToString16(val) ==
    IF val < 16 THEN << HexLower[val + 1] >>
    ELSE << HexLower[(val \div 16) + 1], HexLower[(val % 16) + 1] >>

\* getHex's toHex: one digit is padded with a leading zero.
ToHex(val) ==
    LET hex == ToString16(val)
    IN  IF Len(hex) = 1 THEN << "0" >> \o hex ELSE hex

-----------------------------------------------------------------------------
(* HSLPicker: geometry                                                     *)

\* Loop bounds of drawColorSquare.
Rows == 100

Stops == 15

\* this.radius, in milli-pixels.
RadiusM(r) == 1000 * r

\* this.ringsize = radius / 5, in milli-pixels.
RingsizeM(r) == 200 * r

\* this.squareLength = Math.sqrt(2) * (radius - ringsize), in milli-pixels.
SquareLengthM(r) == (1414214 * 4 * r) \div 5000

\* half = this.squareLength / 2.
HalfM(r) == SquareLengthM(r) \div 2

\* The canvas is radius * 2 wide and high.
InCanvas(r, x, y) == x >= 0 /\ y >= 0 /\ x < 2 * r /\ y < 2 * r

-----------------------------------------------------------------------------
(* HSLPicker: state and core functions                                     *)
(* An instance is a record: radius (pixels), hue (degrees), ix, iy (pixels),*)
(* ox, oy (milli-pixels), the drag flags outerActive and innerActive, and  *)
(* attached: whether its canvas is in the document.                        *)

\* setHue(hue), the argument being k degrees in radians.
SetHue(p, k) ==
    [p EXCEPT !.hue = IF k < 0 THEN k + 360 ELSE k,
              !.ox  = ((Cos(k) * 9 * p.radius) \div 100) + RadiusM(p.radius),
              !.oy  = ((Sin(k) * 9 * p.radius) \div 100) + RadiusM(p.radius)]

\* One axis of _setIXY: v is x or y in milli-pixels, the result is in pixels.
BoundAxis(r, v) ==
    IF v - RadiusM(r) > 0
    THEN RoundM(Min(v, RadiusM(r) + HalfM(r)) - 1000)
    ELSE RoundM(Max(v, RadiusM(r) - HalfM(r)) + 1000)

\* _setIXY(x, y), x and y in milli-pixels.
SetIXY(p, x, y) ==
    [p EXCEPT !.ix = BoundAxis(p.radius, x), !.iy = BoundAxis(p.radius, y)]

\* The constructor's field initialisation followed by its
\* setHue(hue * (Math.PI / 180)); the canvas is appended to the parent.
NewPicker(radius, hue) ==
    SetHue([radius |-> radius, hue |-> hue,
            ix |-> radius, iy |-> radius, ox |-> 0, oy |-> 0,
            outerActive |-> FALSE, innerActive |-> FALSE,
            attached |-> TRUE], hue)

-----------------------------------------------------------------------------
(* HSLPicker: what redraw leaves on the canvas                             *)
(* The hue wheel and the colour square are modelled pixel by pixel.  The   *)
(* two indicator circles redraw strokes last are not: the one around       *)
(* (ix, iy) has radius 3 and a 1-pixel line, which leaves the pixel at     *)
(* (ix, iy) as it was; the one around (ox, oy) lies in the ring and can    *)
(* touch the square only at the pixels of its four corners.                *)

\* drawColorSquare: startX, endX and the width given to fillRect, in pixels.
StartX(r) == RoundM(RadiusM(r) - HalfM(r))

EndX(r) == RoundM(RadiusM(r) + HalfM(r))

SquareWidth(r) == RoundM(SquareLengthM(r))

\* drawColorSquare: startY of strip i, and the height given to fillRect.
StartY(r, i) == RoundM(RadiusM(r) - HalfM(r) + ((i * SquareLengthM(r)) \div 100))

StripHeight(r, i) ==
    RoundM(SquareLengthM(r) \div 100) + (IF i < 96 THEN 4 ELSE 100 - i)

\* The strips are filled for i = 0, 1, ..., 99, each over the ones before it:
\* the strip showing at pixel row y is the last one that covers y (-1: none).
StripAt(r, y) ==
    LET cover == {i \in 0..(Rows - 1) :
                     StartY(r, i) <= y /\ y < StartY(r, i) + StripHeight(r, i)}
    IN  IF cover = {} THEN -1
        ELSE CHOOSE i \in cover : \A j \in cover : j <= i

\* Colour stop j of strip i: 'hsl(...)' of HSBToHSL(hue / 60, s / stops, l / 100).
StopColor(hue, i, j) ==
    LET s   == (IF j = Stops - 1 THEN 1 ELSE 0) + j
        l   == 100 - i - (IF i = Rows - 1 THEN 1 ELSE 0)
        hsl == HSBToHSL(hue, s, Stops, l, 100)
    IN  CssHslToRgb(hsl.h, hsl.s, hsl.l)

\* The linear gradient of strip i (stop j at offset j / stops, from startX to
\* endX) sampled at the centre of pixel column x, for startX <= x.
GradientAt(p, i, x) ==
    LET tN == 2 * (x - StartX(p.radius)) + 1
        tD == 2 * (EndX(p.radius) - StartX(p.radius))
        j  == (Stops * tN) \div tD
    IN  IF j >= Stops - 1 THEN StopColor(p.hue, i, Stops - 1)
        ELSE LET c0 == StopColor(p.hue, i, j)
                 c1 == StopColor(p.hue, i, j + 1)
                 u  == Stops * tN - j * tD
                 mix(a, b) == Round(a * tD + (b - a) * u, tD)
             IN  [r |-> mix(c0.r, c1.r), g |-> mix(c0.g, c1.g),
                  b |-> mix(c0.b, c1.b)]

\* Pixel (x, y) lies in the area drawColorSquare fills.
InPaintedSquare(r, x, y) ==
    /\ EndX(r) > StartX(r)
    /\ StartX(r) <= x /\ x < StartX(r) + SquareWidth(r)
    /\ StripAt(r, y) # -1

\* drawHueWheel at a pixel outside the square: wedge i is the sector from
\* i - 4 to i degrees, filled for i = 0..359 in order; the disk of radius
\* radius - ringsize is then erased.  Distances are taken from the pixel's
\* centre, in half pixels.
WheelAt(r, x, y) ==
    LET dx == 2 * x + 1 - 2 * r
        dy == 2 * y + 1 - 2 * r
        d2 == dx * dx + dy * dy
    IN  IF 25 * d2 < 64 * r * r \/ d2 >= 4 * r * r THEN [r |-> 0, g |-> 0, b |-> 0]
        ELSE CssHslToRgb(Min(359, (Atan2(dy, dx) % 360) + 4), 100, 50)

\* The canvas pixel (x, y) after redraw(); outside the canvas, and where
\* nothing is painted, getImageData gives transparent black.
PixelAt(p, x, y) ==
    IF ~InCanvas(p.radius, x, y) THEN [r |-> 0, g |-> 0, b |-> 0]
    ELSE IF InPaintedSquare(p.radius, x, y)
         THEN GradientAt(p, StripAt(p.radius, y), x)
         ELSE WheelAt(p.radius, x, y)

\* getColor(): the pixel under (ix, iy).
GetColor(p) == PixelAt(p, p.ix, p.iy)

\* getHex().
GetHex(p) ==
    LET rgb == GetColor(p)
    IN  << "#" >> \o ToHex(rgb.r) \o ToHex(rgb.g) \o ToHex(rgb.b)

\* A setColor that places the indicator but leaves the hue as it was.
SetColorKeepsHue(p, R, G, B) ==
    LET hsl == RGBtoHSL(R, G, B)
        hsv == HSLToHSB(hsl.h, hsl.s, 100, hsl.l, 100)
        x   == RadiusM(p.radius) - HalfM(p.radius)
                   + ((SquareLengthM(p.radius) * hsv.s) \div 100)
        y   == RadiusM(p.radius) + HalfM(p.radius)
                   - ((SquareLengthM(p.radius) * hsv.b) \div 100)
    IN  SetIXY(p, x, y)

\* setColor(r, g, b).
SetColor(p, R, G, B) ==
    LET hsl == RGBtoHSL(R, G, B)
        hsv == HSLToHSB(hsl.h, hsl.s, 100, hsl.l, 100)
        q   == SetHue(p, hsv.h)
        x   == RadiusM(p.radius) - HalfM(p.radius)
                   + ((SquareLengthM(p.radius) * hsv.s) \div 100)
        y   == RadiusM(p.radius) + HalfM(p.radius)
                   - ((SquareLengthM(p.radius) * hsv.b) \div 100)
    IN  SetIXY(q, x, y)

\* setColorHex(hex).
SetColorHex(p, hex) ==
    LET rgb == HexToRGB(hex)
    IN  SetColor(p, rgb.r.v, rgb.g.v, rgb.b.v)

-----------------------------------------------------------------------------
(* HSLPicker: input handling                                               *)
(* A pointer event is a record [type, x, y]: x and y are pageX and pageY in *)
(* milli-pixels, multiples of an eighth of a pixel.                        *)

\* can.offsetLeft and can.offsetTop: where the page lays the canvas out while
\* it is in the document; zero once it has been removed.
CanvasOffset == [left |-> 100000, top |-> 100000]

OffsetOf(p) == IF p.attached THEN CanvasOffset ELSE [left |-> 0, top |-> 0]

\* normalizePos reads evt.originalEvent.changedTouches / .touches for the touch
\* types; the listeners are added with addEventListener, whose events carry no
\* originalEvent, so the read throws a TypeError and the handler ends there.
Throws(e) == e.type \in {"touchstart", "touchmove"}

\* normalizePos(evt) for the other types.
NormalizePos(p, e) ==
    [x |-> e.x - OffsetOf(p).left, y |-> e.y - OffsetOf(p).top]

\* mDown's dist, squared, in eighths of a pixel.
Dist2(p, pos) ==
    LET dx == (RadiusM(p.radius) - pos.x) \div 125
        dy == (RadiusM(p.radius) - pos.y) \div 125
    IN  dx * dx + dy * dy

\* dist < this.radius && dist > this.radius - this.ringsize
InRing(p, pos) ==
    /\ Dist2(p, pos) < 64 * p.radius * p.radius
    /\ 25 * Dist2(p, pos) > 1024 * p.radius * p.radius

\* dist < this.squareLength / 2, i.e. dist^2 < 2 * (radius - ringsize)^2 / 4
InSquare(p, pos) == 25 * Dist2(p, pos) < 512 * p.radius * p.radius

\* updateOuter(evt)
UpdateOuter(p, e) ==
    LET pos == NormalizePos(p, e)
    IN  SetHue(p, Atan2((pos.y - RadiusM(p.radius)) \div 125,
                        (pos.x - RadiusM(p.radius)) \div 125))

\* An updateInner that also turns the hue to the pointer's angle.
UpdateInnerAndHue(p, e) ==
    LET pos == NormalizePos(p, e)
    IN  SetIXY(UpdateOuter(p, e), pos.x, pos.y)

\* updateInner(evt)
UpdateInner(p, e) ==
    LET pos == NormalizePos(p, e)
    IN  SetIXY(p, pos.x, pos.y)

\* onChange(): the arguments given to onColorChange.
OnChange(p) == << GetColor(p) >>

\* The listeners return the instance as they leave it and the onColorChange
\* invocations they made, in order.

\* mDown
MDown(p, e) ==
    IF Throws(e) THEN [p |-> p, calls |-> << >>]
    ELSE LET pos  == NormalizePos(p, e)
             ring == InRing(p, pos)
             sq   == InSquare(p, pos)
             p1   == IF ring THEN UpdateOuter([p EXCEPT !.outerActive = TRUE], e)
                     ELSE p
             c1   == IF ring THEN OnChange(p1) ELSE << >>
             p2   == IF sq THEN UpdateInner([p1 EXCEPT !.innerActive = TRUE], e)
                     ELSE p1
             c2   == IF sq THEN OnChange(p2) ELSE << >>
         IN  [p |-> p2, calls |-> c1 \o c2]

\* mMove
MMove(p, e) ==
    IF p.outerActive
    THEN IF Throws(e) THEN [p |-> p, calls |-> << >>]
         ELSE LET q == UpdateOuter(p, e) IN [p |-> q, calls |-> OnChange(q)]
    ELSE IF p.innerActive
    THEN IF Throws(e) THEN [p |-> p, calls |-> << >>]
         ELSE LET q == UpdateInner(p, e) IN [p |-> q, calls |-> OnChange(q)]
    ELSE [p |-> p, calls |-> << >>]

\* A mUp that clears the square flag only.
MUpSquareOnly(p, e) ==
    [p |-> [p EXCEPT !.innerActive = FALSE], calls |-> << >>]

\* mUp
MUp(p, e) ==
    [p |-> [p EXCEPT !.innerActive = FALSE, !.outerActive = FALSE],
     calls |-> << >>]

\* resize(radius): the instance it leaves behind, and the one it returns.
Detached(p) == [p EXCEPT !.attached = FALSE]

Resized(p, radius) ==
    LET rgb == GetColor(p)
    IN  SetColor(NewPicker(radius, p.hue), rgb.r, rgb.g, rgb.b)

-----------------------------------------------------------------------------
(* The picker in its page: inputs                                          *)

\* Radii the picker is constructed and resized with.
Radii == {100, 200}

\* The smallest radii.
TinyRadii == {1, 2}

\* Pointer positions, as offsets from the canvas centre in eighths of the
\* radius: the centre, two points of the ring, one of the square, one of the
\* gap between them, and two outside the canvas (one with negative
\* coordinates).
PointerOffsets ==
    { <<0, 0>>, <<7, 0>>, <<-5, 5>>, <<2, -3>>, <<6, 0>>, <<12, -2>>,
      <<-10, 3>> }

\* Where touches land: the ring and the square.
TouchOffsets == { <<7, 0>>, <<2, -3>> }

\* Where the pointer is released: over the canvas and outside it.
ReleaseOffsets == { <<2, -3>>, <<12, -2>> }

\* Angles given to setHue, in degrees.
HueAngles == {-450, 90, 405}

\* Colours given to setColor.
Colors == { <<255, 0, 0>>, <<0, 255, 0>>, <<255, 255, 255>> }

\* Strings given to setColorHex.
HexInputs == { << "#", "f", "f", "0", "0", "f", "f" >> }

\* Pointer positions of the specification that follows resizes: fewer, as
\* every instance is kept.
ResizeOffsets == { <<-5, 5>>, <<2, -3>>, <<-10, 3>> }

\* At most this many instances are constructed.
MaxPickers == 2

\* The live instance: the one constructed last, whose canvas is in the page.
Live == pickers[Len(pickers)]

\* The pointer event of type t at offset d from the centre of the live canvas.
PointerEvent(t, d) ==
    [type |-> t,
     x |-> CanvasOffset.left + RadiusM(Live.radius) + d[1] * 125 * Live.radius,
     y |-> CanvasOffset.top + RadiusM(Live.radius) + d[2] * 125 * Live.radius]

\* The event's position is over the live canvas, whose listeners then get it.
OverCanvas(e) ==
    LET pos == NormalizePos(Live, e)
    IN  /\ 0 <= pos.x /\ pos.x < 2 * RadiusM(Live.radius)
        /\ 0 <= pos.y /\ pos.y < 2 * RadiusM(Live.radius)

\* The invocations cs, marked with the index of the instance that made them.
Tag(i, cs) == [k \in 1..Len(cs) |-> [by |-> i, rgb |-> cs[k]]]

\* The invocations the mMove listeners of instances 1..n make, in the order
\* the listeners were added to the document.
RECURSIVE MoveCalls(_, _)
MoveCalls(e, n) ==
    IF n = 0 THEN << >>
    ELSE MoveCalls(e, n - 1) \o Tag(n, MMove(pickers[n], e).calls)

-----------------------------------------------------------------------------
(* Actions                                                                 *)

\* new HSLPicker(id, parentId, radius, onColorChange)
Constructed(R) ==
    /\ pickers \in {<< NewPicker(r, 0) >> : r \in R}
    /\ evt = [type |-> "new"]
    /\ calls = << >>
    /\ conv = << >>

\* An event of type t at offset d on the canvas: the live instance's mDown.
Press(t, d) ==
    LET e == PointerEvent(t, d)
        h == MDown(Live, e)
    IN  /\ OverCanvas(e)
        /\ pickers' = [pickers EXCEPT ![Len(pickers)] = h.p]
        /\ calls' = Tag(Len(pickers), h.calls)
        /\ evt' = e
        /\ UNCHANGED conv

\* An event of type t at offset d on the document: every instance's mMove.
Move(t, d) ==
    LET e == PointerEvent(t, d)
    IN  /\ pickers' = [i \in 1..Len(pickers) |-> MMove(pickers[i], e).p]
        /\ calls' = MoveCalls(e, Len(pickers))
        /\ evt' = e
        /\ UNCHANGED conv

\* An event of type t at offset d on the document: every instance's mUp.
Release(t, d) ==
    LET e == PointerEvent(t, d)
    IN  /\ pickers' = [i \in 1..Len(pickers) |-> MUp(pickers[i], e).p]
        /\ calls' = << >>
        /\ evt' = e
        /\ UNCHANGED conv

MouseDown == \E d \in PointerOffsets : Press("mousedown", d)

TouchStart == \E d \in TouchOffsets : Press("touchstart", d)

MouseMove == \E d \in PointerOffsets : Move("mousemove", d)

TouchMove == \E d \in TouchOffsets : Move("touchmove", d)

MouseUp == \E d \in ReleaseOffsets : Release("mouseup", d)

TouchEnd == \E d \in ReleaseOffsets : Release("touchend", d)

\* picker.setHue(angle)
CallSetHue ==
    \E k \in HueAngles :
        /\ pickers' = [pickers EXCEPT ![Len(pickers)] = SetHue(Live, k)]
        /\ calls' = << >>
        /\ evt' = [type |-> "setHue", angle |-> k]
        /\ UNCHANGED conv

\* picker.setColor(r, g, b)
CallSetColor ==
    \E c \in Colors :
        /\ pickers' = [pickers EXCEPT
                          ![Len(pickers)] = SetColor(Live, c[1], c[2], c[3])]
        /\ calls' = << >>
        /\ evt' = [type |-> "setColor", rgb |-> c]
        /\ UNCHANGED conv

\* picker.setColorHex(hex)
CallSetColorHex ==
    \E hex \in HexInputs :
        /\ pickers' = [pickers EXCEPT ![Len(pickers)] = SetColorHex(Live, hex)]
        /\ calls' = << >>
        /\ evt' = [type |-> "setColorHex", hex |-> hex]
        /\ UNCHANGED conv

\* picker = picker.resize(radius)
CallResize ==
    \E r \in Radii :
        /\ Len(pickers) < MaxPickers
        /\ pickers' = [pickers EXCEPT ![Len(pickers)] = Detached(Live)]
                          \o << Resized(Live, r) >>
        /\ calls' = << >>
        /\ evt' = [type |-> "resize", radius |-> r]
        /\ UNCHANGED conv

\* One picker, its pointer and touch input and its setters.
Init == Constructed(Radii)

Next ==
    \/ MouseDown
    \/ TouchStart
    \/ MouseMove
    \/ TouchMove
    \/ MouseUp
    \/ TouchEnd
    \/ CallSetHue
    \/ CallSetColor
    \/ CallSetColorHex

Spec == Init /\ [][Next]_vars

\* The same, for the smallest pickers.
InitTiny == Constructed(TinyRadii)

SpecTiny == InitTiny /\ [][Next]_vars

\* A picker of radius 200 that is resized, with mouse input before and after.
InitResize == Constructed({200})

ResizeMouseDown == \E d \in ResizeOffsets : Press("mousedown", d)

ResizeMouseMove == \E d \in ResizeOffsets : Move("mousemove", d)

ResizeMouseUp == Release("mouseup", <<2, -3>>)

NextResize ==
    \/ ResizeMouseDown
    \/ ResizeMouseMove
    \/ ResizeMouseUp
    \/ CallResize

SpecResize == InitResize /\ [][NextResize]_vars

-----------------------------------------------------------------------------
(* ColorConvert as a pipeline: RGB to HSL to HSB to HSL, and back to RGB   *)
(* the way the canvas reads the 'hsl(...)' strings drawColorSquare gives it.*)

\* Channel values the pipeline is run on: every fourth value, and those of the
\* colours that come back furthest from where they started.
ConvChannels ==
    {c \in 0..255 : c % 4 = 0 \/ c \in {1, 3, 19, 27, 150, 230, 254, 255}}

InitConv ==
    /\ conv \in {[stage |-> "rgb", rgb |-> <<R, G, B>>] :
                    R \in ConvChannels, G \in ConvChannels, B \in ConvChannels}
    /\ pickers = << >>
    /\ evt = [type |-> "none"]
    /\ calls = << >>

\* hsl = ColorConvert.RGBtoHSL(r, g, b)
ConvRGBtoHSL ==
    /\ conv.stage = "rgb"
    /\ conv' = [stage |-> "hsl", rgb |-> conv.rgb,
                hsl |-> RGBtoHSL(conv.rgb[1], conv.rgb[2], conv.rgb[3])]
    /\ UNCHANGED <<pickers, evt, calls>>

\* hsb = ColorConvert.HSLToHSB(hsl.h / 60, hsl.s / 100, hsl.l / 100)
ConvHSLToHSB ==
    /\ conv.stage = "hsl"
    /\ conv' = [stage |-> "hsb", rgb |-> conv.rgb,
                hsb |-> HSLToHSB(conv.hsl.h, conv.hsl.s, 100, conv.hsl.l, 100)]
    /\ UNCHANGED <<pickers, evt, calls>>

\* hsl = ColorConvert.HSBToHSL(hsb.h / 60, hsb.s / 100, hsb.b / 100)
ConvHSBToHSL ==
    /\ conv.stage = "hsb"
    /\ conv' = [stage |-> "back", rgb |-> conv.rgb,
                hsl |-> HSBToHSL(conv.hsb.h, conv.hsb.s, 100, conv.hsb.b, 100)]
    /\ UNCHANGED <<pickers, evt, calls>>

\* 'hsl(' + hsl.h + ',' + hsl.s + '%,' + hsl.l + '%)' as a colour
ConvCompose ==
    /\ conv.stage = "back"
    /\ conv' = [stage |-> "done", rgb |-> conv.rgb,
                out |-> CssHslToRgb(conv.hsl.h, conv.hsl.s, conv.hsl.l)]
    /\ UNCHANGED <<pickers, evt, calls>>

NextConv ==
    \/ ConvRGBtoHSL
    \/ ConvHSLToHSB
    \/ ConvHSBToHSL
    \/ ConvCompose

SpecConv == InitConv /\ [][NextConv]_vars

-----------------------------------------------------------------------------
(* Properties                                                              *)

PointerTypes ==
    {"mousedown", "touchstart", "mousemove", "touchmove", "mouseup", "touchend"}

Idle(p) == ~p.outerActive /\ ~p.innerActive

\* C1: in every reachable state, at most one of outerActive and innerActive
\* is true in each instance.
AtMostOneDragFlag ==
    \A i \in 1..Len(pickers) :
        ~(pickers[i].outerActive /\ pickers[i].innerActive)

\* C2: after construction and any sequence of setHue calls, hue is in [0, 360).
HueInRange ==
    \A i \in 1..Len(pickers) : 0 <= pickers[i].hue /\ pickers[i].hue < 360

\* C3: ix and iy lie within [radius - squareLength / 2, radius + squareLength / 2],
\* for every radius.
InnerWithin(p) ==
    /\ RadiusM(p.radius) - HalfM(p.radius) <= 1000 * p.ix
    /\ 1000 * p.ix <= RadiusM(p.radius) + HalfM(p.radius)
    /\ RadiusM(p.radius) - HalfM(p.radius) <= 1000 * p.iy
    /\ 1000 * p.iy <= RadiusM(p.radius) + HalfM(p.radius)

InnerInSquare == \A i \in 1..Len(pickers) : InnerWithin(pickers[i])

\* The event e makes instance p perform a ring or square update: a press the
\* canvas delivers inside the ring or the square, or a move during a drag; the
\* handler has to get as far as the update.
PerformsUpdate(p, e) ==
    /\ ~Throws(e)
    /\ \/ /\ e.type = "mousedown"
          /\ p.attached
          /\ InRing(p, NormalizePos(p, e)) \/ InSquare(p, NormalizePos(p, e))
       \/ /\ e.type = "mousemove"
          /\ ~Idle(p)

\* C4: a press or move event that performs a ring or square update invokes
\* onColorChange exactly once, with the r, g, b (integers in 0..255) that
\* getColor() gives after the update; any other pointer event invokes it zero
\* times.
CallbackOncePerUpdate ==
    [][ (evt'.type \in PointerTypes /\ Len(pickers') = Len(pickers)) =>
            IF \E i \in 1..Len(pickers) : PerformsUpdate(pickers[i], evt')
            THEN /\ Len(calls') = 1
                 /\ calls'[1].rgb = GetColor(pickers'[calls'[1].by])
                 /\ \A c \in {calls'[1].rgb.r, calls'[1].rgb.g, calls'[1].rgb.b} :
                        c \in 0..255
            ELSE calls' = << >> ]_vars

\* C5: from Idle, a press in the ring band sets only the ring flag and applies
\* updateOuter; otherwise a press nearer to the centre than squareLength / 2
\* sets only the square flag and applies updateInner; otherwise the picker
\* stays Idle and unchanged.  No position is in both regions.
PressClassified ==
    [][ (evt'.type \in {"mousedown", "touchstart"} /\ Idle(Live)
             /\ Len(pickers') = Len(pickers)) =>
            LET pos  == NormalizePos(Live, evt')
                ring == InRing(Live, pos)
                sq   == InSquare(Live, pos)
            IN  /\ ~(ring /\ sq)
                /\ ring => Live' = UpdateOuter([Live EXCEPT !.outerActive = TRUE], evt')
                /\ (~ring /\ sq) =>
                       Live' = UpdateInner([Live EXCEPT !.innerActive = TRUE], evt')
                /\ (~ring /\ ~sq) => Live' = Live ]_vars

\* C6: a release event, wherever it happens, clears both flags of a dragging
\* picker, invokes no callback and changes nothing else; with both flags
\* clear, a move event changes nothing and invokes no callback.
ReleaseEndsDrag ==
    [][ /\ evt'.type \in {"mouseup", "touchend"} =>
              /\ \A i \in 1..Len(pickers) :
                     pickers'[i] = [pickers[i] EXCEPT !.outerActive = FALSE,
                                                      !.innerActive = FALSE]
              /\ calls' = << >>
        /\ (evt'.type \in {"mousemove", "touchmove"}
                /\ \A i \in 1..Len(pickers) : Idle(pickers[i])) =>
              /\ pickers' = pickers
              /\ calls' = << >> ]_vars

\* A release has ended a drag of the ring: the hue is one only a ring update
\* at offset <<-5, 5>> gives.
ReleaseEndsDragWitness ==
    /\ evt.type = "mouseup"
    /\ Live.hue = 135
    /\ Idle(Live)

\* C7: on a picker of radius 200, getHex() after setColor(255, 0, 0) is
\* "#ff0000", after setColor(0, 255, 0) it is "#00ff00", and after
\* setColorHex('#ff00ff') it is "#ff00ff".
SetColorThenGetHex ==
    Live.radius = 200 =>
        /\ (evt.type = "setColor" /\ evt.rgb = <<255, 0, 0>>) =>
               GetHex(Live) = << "#", "f", "f", "0", "0", "0", "0" >>
        /\ (evt.type = "setColor" /\ evt.rgb = <<0, 255, 0>>) =>
               GetHex(Live) = << "#", "0", "0", "f", "f", "0", "0" >>
        /\ (evt.type = "setColorHex"
                /\ evt.hex = << "#", "f", "f", "0", "0", "f", "f" >>) =>
               GetHex(Live) = << "#", "f", "f", "0", "0", "f", "f" >>

\* setColorHex('#ff00ff') has run on a picker of radius 200 that was showing
\* another hue, and the picker reads back as magenta.
SetColorThenGetHexWitness ==
    /\ Live.radius = 200
    /\ evt.type = "setColorHex"
    /\ Live.hue = 300
    /\ GetColor(Live) = [r |-> 255, g |-> 0, b |-> 255]

\* C8: resize(radius) returns a picker of that radius whose hue is the old
\* picker's hue and whose getHex() is the old picker's getHex().
ResizePreserves ==
    evt.type = "resize" =>
        LET old == pickers[Len(pickers) - 1]
        IN  /\ Live.radius = evt.radius
            /\ Live.hue = old.hue
            /\ GetHex(Live) = GetHex(old)

\* C9: once resize has replaced an instance, no pointer event changes the
\* replaced instance's hue or positions, nor makes it invoke the callback.
ReplacedInstanceInert ==
    [][ \A i \in 1..Len(pickers) :
            ~pickers[i].attached =>
                /\ pickers'[i].hue = pickers[i].hue
                /\ pickers'[i].ix = pickers[i].ix
                /\ pickers'[i].iy = pickers[i].iy
                /\ pickers'[i].ox = pickers[i].ox
                /\ pickers'[i].oy = pickers[i].oy
                /\ \A k \in 1..Len(calls') : calls'[k].by # i ]_vars

\* The largest difference between a colour and what the pipeline made of it.
ConvError ==
    LET d(i, v) == Abs(conv.rgb[i] - v)
    IN  Max(d(1, conv.out.r), Max(d(2, conv.out.g), d(3, conv.out.b)))

\* C10 as stated: RGB to HSL to HSB to HSL and back to RGB reproduces every
\* channel within 1.
RoundTripWithinOne == conv.stage = "done" => ConvError <= 1

\* C10 as amended: the round trip reproduces every channel within 8.
RoundTripWithinEight == conv.stage = "done" => ConvError <= 8

\* The round trip of (4, 19, 254) gives (10, 27, 255): green is off by 8.
RoundTripWitness ==
    /\ conv.stage = "done"
    /\ conv.rgb = <<4, 19, 254>>
    /\ ConvError = 8

-----------------------------------------------------------------------------
(* ColorConvert on doubles                                                 *)
(* HSLToHSB and HSBToHSL take fractions; the operators above compute them  *)
(* on exact rationals, which is what they get from the picker.  Here they  *)
(* are computed as the program computes them on any doubles in [0, 1].  A  *)
(* double is a record [m, e] standing for m * 2^e, m odd or zero.  Sums    *)
(* round to nearest with a 53-bit significand: a term whose leading bit is *)
(* 55 or more places under the other's is absorbed; all other sums formed  *)
(* here are exact.  The products formed here are exact.                    *)

RECURSIVE DNorm(_, _)
DNorm(m, e) ==
    IF m = 0 THEN [m |-> 0, e |-> 0]
    ELSE IF m % 2 = 0 THEN DNorm(m \div 2, e + 1)
    ELSE [m |-> m, e |-> e]

RECURSIVE BitLen(_)
BitLen(n) == IF n = 0 THEN 0 ELSE 1 + BitLen(n \div 2)

\* x # 0 lies in [2^(Top(x) - 1), 2^Top(x)) in magnitude.
Top(x) == x.e + BitLen(Abs(x.m))

DZero == DNorm(0, 0)

DOne == DNorm(1, 0)

DTwo == DNorm(2, 0)

DHalf == DNorm(1, -1)

DNeg(a) == [m |-> -a.m, e |-> a.e]

DAbs(a) == [m |-> Abs(a.m), e |-> a.e]

\* a * b
DMul(a, b) == DNorm(a.m * b.m, a.e + b.e)

\* a + b
DAdd(a, b) ==
    IF a.m = 0 THEN b
    ELSE IF b.m = 0 THEN a
    ELSE IF Top(a) - Top(b) >= 55 THEN a
    ELSE IF Top(b) - Top(a) >= 55 THEN b
    ELSE LET e == Min(a.e, b.e)
         IN  DNorm(a.m * 2^(a.e - e) + b.m * 2^(b.e - e), e)

\* a - b
DSub(a, b) == DAdd(a, DNeg(b))

\* n / d for n, d >= 0: a quotient, or what division by zero gives.
DDiv(n, d) ==
    IF d.m = 0 THEN IF n.m = 0 THEN NaN ELSE [k |-> "Infinity"]
    ELSE [k |-> "quotient", n |-> n, d |-> d]

\* Math.round(q * 100) for a result q of DDiv.
RoundTimes100(q) ==
    IF q.k # "quotient" THEN [k |-> q.k]
    ELSE IF q.n.m = 0 \/ Top(q.n) - Top(q.d) <= -9 THEN [k |-> "finite", v |-> 0]
    ELSE LET sh == q.n.e - q.d.e
         IN  [k |-> "finite",
              v |-> IF sh >= 0 THEN Round(100 * q.n.m * 2^sh, q.d.m)
                    ELSE Round(100 * q.n.m, q.d.m * 2^(-sh))]

\* HSLToHSB(H, S, L) with H = h60 / 60 and S, L doubles.
HSLToHSBDouble(h60, S, L) ==
    LET b == DMul(DAdd(DMul(DTwo, L),
                       DMul(S, DSub(DOne, DAbs(DSub(DMul(DTwo, L), DOne))))),
                  DHalf)
        s == DDiv(DMul(DTwo, DSub(b, L)), b)
    IN  IF b.m = 0 THEN [h |-> Finite(0), s |-> Finite(0), b |-> Finite(0)]
        ELSE [h |-> Finite(h60),
              s |-> RoundTimes100(s),
              b |-> RoundTimes100(DDiv(b, DOne))]

\* HSBToHSL(H, S, B) with H = h60 / 60 and S, B doubles.
HSBToHSLDouble(h60, S, B) ==
    LET l     == DMul(DMul(DHalf, B), DSub(DTwo, S))
        s     == DDiv(DMul(B, S),
                      DSub(DOne, DAbs(DSub(DMul(DTwo, l), DOne))))
        isNaN == s.k = "NaN"
    IN  IF (S.m = 0 \/ isNaN) /\ B = DOne
        THEN [h |-> Finite(h60), s |-> Finite(0), l |-> Finite(100)]
        ELSE IF (S.m = 0 \/ isNaN) /\ B.m = 0
        THEN [h |-> Finite(h60), s |-> Finite(0), l |-> Finite(0)]
        ELSE [h |-> Finite(h60),
              s |-> RoundTimes100(s),
              l |-> RoundTimes100(DDiv(l, DOne))]

\* Fractions the two conversions are called with: 0, 2^-60, 1/4, 1/2, 3/4, 1.
Fractions ==
    {DZero, DNorm(1, -60), DNorm(1, -2), DHalf, DNorm(3, -2), DOne}

\* Hues they are called with, as H * 60.
ConvHues == {0, 60, 300}

InitDouble ==
    /\ conv \in {[stage |-> "args", fn |-> f, h60 |-> h, x |-> x, y |-> y] :
                    f \in {"HSLToHSB", "HSBToHSL"}, h \in ConvHues,
                    x \in Fractions, y \in Fractions}
    /\ pickers = << >>
    /\ evt = [type |-> "none"]
    /\ calls = << >>

\* ColorConvert.HSLToHSB(H, S, L)
CallHSLToHSB ==
    /\ conv.stage = "args"
    /\ conv.fn = "HSLToHSB"
    /\ conv' = [conv EXCEPT !.stage = "result"]
                   @@ [out |-> HSLToHSBDouble(conv.h60, conv.x, conv.y)]
    /\ UNCHANGED <<pickers, evt, calls>>

\* ColorConvert.HSBToHSL(H, S, B)
CallHSBToHSL ==
    /\ conv.stage = "args"
    /\ conv.fn = "HSBToHSL"
    /\ conv' = [conv EXCEPT !.stage = "result"]
                   @@ [out |-> HSBToHSLDouble(conv.h60, conv.x, conv.y)]
    /\ UNCHANGED <<pickers, evt, calls>>

NextDouble ==
    \/ CallHSLToHSB
    \/ CallHSBToHSL

SpecDouble == InitDouble /\ [][NextDouble]_vars

\* C11: hsbToHsl and hslToHsb return only finite numbers for all fractions in
\* [0, 1], and hsbToHsl(h, 0, 1) = {h * 60, 0, 100}, hsbToHsl(h, 0, 0) =
\* {h * 60, 0, 0}, hslToHsb(h, s, 0) = {0, 0, 0}.
ConversionsFinite ==
    conv.stage = "result" =>
        /\ \A v \in {conv.out[f] : f \in DOMAIN conv.out} : v.k = "finite"
        /\ (conv.fn = "HSBToHSL" /\ conv.x = DZero /\ conv.y = DOne) =>
               conv.out = [h |-> Finite(conv.h60), s |-> Finite(0),
                           l |-> Finite(100)]
        /\ (conv.fn = "HSBToHSL" /\ conv.x = DZero /\ conv.y = DZero) =>
               conv.out = [h |-> Finite(conv.h60), s |-> Finite(0),
                           l |-> Finite(0)]
        /\ (conv.fn = "HSLToHSB" /\ conv.y = DZero) =>
               conv.out = [h |-> Finite(0), s |-> Finite(0), b |-> Finite(0)]

\* C12: for integers r, g, b in 0..255, RGBtoHSL returns h in 0..360, s in
\* 0..100 and l in 0..100; h is never negative.
RGBtoHSLInRange ==
    conv.stage = "hsl" =>
        /\ conv.hsl.h \in 0..360
        /\ conv.hsl.s \in 0..100
        /\ conv.hsl.l \in 0..100

-----------------------------------------------------------------------------
(* ColorConvert.HexToRGB on arbitrary strings                              *)

\* Characters the strings are made of: hex digits, a letter that is none, and
\* the two characters parseInt reads before the digits.
HexChars == {"0", "f", "g", "x", "-"}

MaxHexLen == 6

\* Every string of up to MaxHexLen of these characters, with and without a
\* leading '#'.
HexStrings ==
    LET body == UNION {[1..n -> HexChars] : n \in 0..MaxHexLen}
    IN  body \cup {<< "#" >> \o b : b \in body}

InitHex ==
    /\ conv \in {[stage |-> "args", hex |-> h] : h \in HexStrings}
    /\ pickers = << >>
    /\ evt = [type |-> "none"]
    /\ calls = << >>

\* ColorConvert.HexToRGB(hex)
CallHexToRGB ==
    /\ conv.stage = "args"
    /\ conv' = [stage |-> "result", hex |-> conv.hex, out |-> HexToRGB(conv.hex)]
    /\ UNCHANGED <<pickers, evt, calls>>

NextHex == CallHexToRGB

SpecHex == InitHex /\ [][NextHex]_vars

\* The string, after a leading '#' is stripped, has fewer than six characters
\* or a character that is no hex digit.
Malformed(hex) ==
    LET body == IF Len(hex) > 0 /\ hex[1] = "#" THEN Tail(hex) ELSE hex
    IN  Len(body) < 6 \/ \E i \in 1..Len(body) : ~IsHexDigit(body[i])

\* C13: for every malformed input string HexToRGB returns at least one NaN
\* channel; it never returns three numbers.
MalformedHexGivesNaN ==
    (conv.stage = "result" /\ Malformed(conv.hex)) =>
        NaN \in {conv.out.r, conv.out.g, conv.out.b}

-----------------------------------------------------------------------------
(* Properties of the square update                                         *)

\* The event e is handled by instance p as a square update: a press inside
\* the square, or a move while only the square is being dragged.
SquareUpdate(p, e) ==
    \/ e.type = "mousedown" /\ InSquare(p, NormalizePos(p, e))
    \/ e.type = "mousemove" /\ p.innerActive /\ ~p.outerActive

\* v, in milli-pixels, clamped to [radius - squareLength / 2 + 1,
\* radius + squareLength / 2 - 1] and rounded to a pixel.
ClampedInset(r, v) ==
    RoundM(Min(Max(v, RadiusM(r) - HalfM(r) + 1000),
               RadiusM(r) + HalfM(r) - 1000))

\* C14: a square update stores as ix the rounding of pos.x clamped to
\* [radius - squareLength / 2 + 1, radius + squareLength / 2 - 1], and as iy
\* the same of pos.y; a position inside that range is stored as it is.
InnerIsClampedPosition ==
    [][ (Len(pickers') = Len(pickers) /\ SquareUpdate(Live, evt')) =>
            LET pos == NormalizePos(Live, evt')
            IN  /\ Live'.ix = ClampedInset(Live.radius, pos.x)
                /\ Live'.iy = ClampedInset(Live.radius, pos.y) ]_vars

\* The event e is handled by instance p as a ring update: a press inside the
\* ring, or a move while the ring is being dragged.
RingUpdate(p, e) ==
    \/ e.type = "mousedown" /\ InRing(p, NormalizePos(p, e))
    \/ e.type = "mousemove" /\ p.outerActive

\* The event e changes nothing in instance p: a move in Idle, or a press
\* outside both regions.
NoUpdate(p, e) ==
    \/ e.type \in {"mousemove", "touchmove"} /\ Idle(p)
    \/ /\ e.type \in {"mousedown", "touchstart"}
       /\ ~InRing(p, NormalizePos(p, e))
       /\ ~InSquare(p, NormalizePos(p, e))

\* C15: a square update leaves hue, ox and oy unchanged; a ring update leaves
\* ix and iy unchanged; a move in Idle and a press that hits neither region
\* leave the whole instance unchanged.
UpdatesKeepTheirFrame ==
    [][ (Len(pickers') = Len(pickers) /\ evt'.type \in PointerTypes) =>
            /\ SquareUpdate(Live, evt') =>
                   /\ Live'.hue = Live.hue
                   /\ Live'.ox = Live.ox
                   /\ Live'.oy = Live.oy
            /\ RingUpdate(Live, evt') =>
                   /\ Live'.ix = Live.ix
                   /\ Live'.iy = Live.iy
            /\ NoUpdate(Live, evt') => Live' = Live ]_vars

\* A press in the square has moved the inner indicator of a picker whose hue
\* an earlier ring drag had set, and the hue is still that one.
UpdatesKeepTheirFrameWitness ==
    /\ evt.type = "mousedown"
    /\ Live.innerActive /\ ~Live.outerActive
    /\ Live.hue = 135
    /\ Live.ix # Live.radius

\* C16: the pixel (ix, iy) that getColor samples lies inside the area
\* drawColorSquare paints: its column is in [startX, startX +
\* round(squareLength)) and its row is covered by one of the 100 strips.
SampledPixelIsPainted ==
    \A i \in 1..Len(pickers) :
        LET p == pickers[i]
        IN  /\ StartX(p.radius) <= p.ix
            /\ p.ix < StartX(p.radius) + SquareWidth(p.radius)
            /\ StripAt(p.radius, p.iy) # -1

====
